---- MODULE Spec2Model ----
(***************************************************************************)
(* GooglePolylineService (src/services/google/google-polyline.service.ts). *)
(*                                                                         *)
(* The service keeps one map, _polylines, from MapPolylineComponent to the *)
(* promise of the native Polyline that MapService.CreatePolyline returned. *)
(* Every other method looks the promise up and chains a callback on it.   *)
(* The model keeps the promises, their reaction lists and the microtask    *)
(* queue explicit, so that a callback runs when the JavaScript job queue   *)
(* would run it, and it logs every call made on a native handle, every     *)
(* entry into the zone and every observer notification.                    *)
(***************************************************************************)
EXTENDS Naturals, Sequences, FiniteSets

\* ------------------------------------------------------------------ bounds
MaxHandles == 2    \* calls of MapService.CreatePolyline
MaxOps == 2        \* calls of DeletePolyline, UpdatePolyline, SetOptions, subscribe
MaxEvents == 1     \* native events fired by the map SDK
MaxCoordinate == 1 \* latitudes and longitudes are 0..MaxCoordinate

\* ------------------------------------------------------------- the world
Comps == {"p1", "p2"}
Paths == {"pathA", "pathB"}
EventNames == {"click", "dblclick"}
EventValues == {"e1", "e2"}

\* The values a MapPolylineComponent's inputs take.  Fields of one type
\* differ inside a value and across the values.
DefaultComponent ==
    [Id |-> 1, Clickable |-> TRUE, Draggable |-> FALSE, Editable |-> TRUE,
     Geodesic |-> FALSE, Path |-> "pathA", StrokeColor |-> "red",
     StrokeOpacity |-> 2, StrokeWeight |-> 3, Visible |-> FALSE, zIndex |-> 4]

ComponentValues ==
    { DefaultComponent,
      [Id |-> 5, Clickable |-> FALSE, Draggable |-> FALSE, Editable |-> TRUE,
       Geodesic |-> TRUE, Path |-> "pathB", StrokeColor |-> "blue",
       StrokeOpacity |-> 6, StrokeWeight |-> 7, Visible |-> TRUE, zIndex |-> 8],
      [Id |-> 9, Clickable |-> TRUE, Draggable |-> TRUE, Editable |-> FALSE,
       Geodesic |-> FALSE, Path |-> "pathA", StrokeColor |-> "green",
       StrokeOpacity |-> 10, StrokeWeight |-> 11, Visible |-> TRUE, zIndex |-> 12] }

\* PolylineOptions with the two stroke numbers exchanged.
PolylineOptions_StrokeSwapped(c) ==
    [id |-> c.Id, clickable |-> c.Clickable, draggable |-> c.Draggable,
     editable |-> c.Editable, geodesic |-> c.Geodesic, path |-> c.Path,
     strokeColor |-> c.StrokeColor, strokeOpacity |-> c.StrokeWeight,
     strokeWeight |-> c.StrokeOpacity, visible |-> c.Visible, zIndex |-> c.zIndex]

\* const o: IPolylineOptions = { id: polyline.Id, ... }
PolylineOptions(c) ==
    [id |-> c.Id, clickable |-> c.Clickable, draggable |-> c.Draggable,
     editable |-> c.Editable, geodesic |-> c.Geodesic, path |-> c.Path,
     strokeColor |-> c.StrokeColor, strokeOpacity |-> c.StrokeOpacity,
     strokeWeight |-> c.StrokeWeight, visible |-> c.Visible, zIndex |-> c.zIndex]

\* The options objects a caller passes to SetOptions.
OptionsArgs ==
    { [id |-> 0, clickable |-> b, draggable |-> FALSE, editable |-> FALSE,
       geodesic |-> FALSE, path |-> "pathA", strokeColor |-> "green",
       strokeOpacity |-> 1, strokeWeight |-> 1, visible |-> TRUE, zIndex |-> 0]
      : b \in BOOLEAN }

NoOptions ==
    [id |-> 0, clickable |-> FALSE, draggable |-> FALSE, editable |-> FALSE,
     geodesic |-> FALSE, path |-> "", strokeColor |-> "",
     strokeOpacity |-> 0, strokeWeight |-> 0, visible |-> FALSE, zIndex |-> 0]

VARIABLES
    comp,           \* the components' input properties
    polylines,      \* _polylines: component -> handle promise (index in handles)
    handles,        \* the promises MapService.CreatePolyline returned, in call order
    owner,          \* owner[h]: the component AddPolyline registered handle promise h for
    ops,            \* the calls that chain on a handle promise, with their returned promise
    microtasks,     \* the promise job queue: <<op>> in the order the jobs were queued
    nativeCalls,    \* the calls made on native Polyline handles, in order
    listeners,      \* the delegates attached with AddListener
    events,         \* the native events that have fired
    notifications,  \* the calls of observer.next
    zoneRuns,       \* number of calls of _zone.run
    result          \* what the last synchronous query returned

vars == <<comp, polylines, handles, owner, ops, microtasks, nativeCalls, listeners,
          events, notifications, zoneRuns, result>>

\* ------------------------------------------------------------- helpers
Undefined == 0      \* Map.get of a missing key; handle promises are 1, 2, ...

\* this._polylines.get(polyline)
Get(p) == IF p \in DOMAIN polylines THEN polylines[p] ELSE Undefined

\* this._polylines.set(polyline, h)
MapSet(m, p, h) == [q \in (DOMAIN m) \cup {p} |-> IF q = p THEN h ELSE m[q]]

\* this._polylines.delete(polyline)
MapDelete(m, p) == [q \in (DOMAIN m) \ {p} |-> m[q]]

\* The values of a click event e: e and e.latLng are undefined, null, the
\* number 0 or an object; e.latLng.lat and e.latLng.lng are undefined, null,
\* the number 0 or a function returning a coordinate.
FalsyKinds == {"undefined", "null", "zero"}

LatLngMembers ==
    {[kind |-> k, returns |-> 0] : k \in FalsyKinds} \cup
    {[kind |-> "function", returns |-> v] : v \in 0..MaxCoordinate}

NoLatLng(k) ==
    [kind |-> k, lat |-> [kind |-> "undefined", returns |-> 0],
     lng |-> [kind |-> "undefined", returns |-> 0]]

LatLngs ==
    {NoLatLng(k) : k \in FalsyKinds} \cup
    {[kind |-> "object", lat |-> a, lng |-> b] : a \in LatLngMembers, b \in LatLngMembers}

ClickEvents ==
    {[kind |-> k, latLng |-> NoLatLng("undefined")] : k \in FalsyKinds} \cup
    {[kind |-> "object", latLng |-> l] : l \in LatLngs}

NoEvent == [kind |-> "undefined", latLng |-> NoLatLng("undefined")]

Null == [kind |-> "null", latitude |-> 0, longitude |-> 0]

NoResult ==
    [call |-> "none", polyline |-> "", e |-> NoEvent, kind |-> "none", ref |-> 0,
     latitude |-> 0, longitude |-> 0]

Init ==
    /\ comp = [p \in Comps |-> DefaultComponent]
    /\ polylines = << >>
    /\ handles = << >>
    /\ owner = << >>
    /\ ops = << >>
    /\ microtasks = << >>
    /\ nativeCalls = << >>
    /\ listeners = << >>
    /\ events = << >>
    /\ notifications = << >>
    /\ zoneRuns = 0
    /\ result = NoResult

\* ----------------------------------------------------------- AddPolyline
\* MapService.CreatePolyline(o): a new pending promise, no reactions yet.
CreatePolyline(o) == [state |-> "pending", options |-> o, reactions |-> << >>]

AddPolyline(p) ==
    /\ Len(handles) < MaxHandles
    /\ LET o == PolylineOptions(comp[p])
           polylinePromise == Len(handles) + 1
       IN  /\ handles' = Append(handles, CreatePolyline(o))
           /\ polylines' = MapSet(polylines, p, polylinePromise)
           /\ owner' = Append(owner, p)
    /\ UNCHANGED <<comp, ops, microtasks, nativeCalls, listeners, events,
                   notifications, zoneRuns, result>>

\* The framework rebinds the inputs of a component (read at lines 58-68).
ChangeInputs(p, c) ==
    /\ comp[p] # c
    /\ comp' = [comp EXCEPT ![p] = c]
    /\ UNCHANGED <<owner, polylines, handles, ops, microtasks, nativeCalls, listeners,
                   events, notifications, zoneRuns, result>>

\* The framework rebinds a component's [Path] input (read at lines 63 and 176).
ChangePath(p, path) ==
    /\ comp[p].Path # path
    /\ comp' = [comp EXCEPT ![p].Path = path]
    /\ UNCHANGED <<owner, polylines, handles, ops, microtasks, nativeCalls, listeners,
                   events, notifications, zoneRuns, result>>

\* ------------------------------------------------------------- promises
\* A call of one of the service's asynchronous methods and the promise it
\* returned.  h is the handle promise it looked up (Undefined: none).
\* pathAtCall records polyline.Path when UpdatePolyline was called, addsAtCall
\* the number of AddPolyline calls made before this call.
Op(kind, p, options, eventName, ret, status) ==
    [kind |-> kind, polyline |-> p, h |-> Get(p), options |-> options,
     eventName |-> eventName,
     pathAtCall |-> IF kind = "Update" THEN comp[p].Path ELSE "",
     addsAtCall |-> Len(handles),
     ret |-> ret, status |-> status]

\* m.then(callback) that puts the new reaction before the earlier ones.
Then_NewestFirst(h) ==
    LET o == Len(ops) + 1
    IN  IF handles[h].state = "pending"
        THEN /\ handles' = [handles EXCEPT ![h].reactions = <<o>> \o @]
             /\ microtasks' = microtasks
        ELSE /\ microtasks' = Append(microtasks, o)
             /\ handles' = handles

\* m.then(callback) for the op about to be appended to ops: a reaction of a
\* pending promise, a queued job of a settled one.
Then(h) ==
    LET o == Len(ops) + 1
    IN  IF handles[h].state = "pending"
        THEN /\ handles' = [handles EXCEPT ![h].reactions = Append(@, o)]
             /\ microtasks' = microtasks
        ELSE /\ microtasks' = Append(microtasks, o)
             /\ handles' = handles

\* The map SDK settles a CreatePolyline promise: its reactions become jobs,
\* in the order they were registered.
Settle(h, state) ==
    /\ h \in 1..Len(handles)
    /\ handles[h].state = "pending"
    /\ handles' = [handles EXCEPT ![h].state = state, ![h].reactions = << >>]
    /\ microtasks' = microtasks \o handles[h].reactions
    /\ UNCHANGED <<comp, owner, polylines, ops, nativeCalls, listeners, events,
                   notifications, zoneRuns, result>>

ResolveHandle(h) == Settle(h, "fulfilled")

RejectHandle(h) == Settle(h, "rejected")

\* A call on the native Polyline that handle promise h resolved to, made by
\* the callback of op o.
NativeCall(method, o, options, path, eventName, zone) ==
    [method |-> method, h |-> ops[o].h, op |-> o, options |-> options,
     path |-> path, eventName |-> eventName, zone |-> zone]

\* -------------------------------------------------------- DeletePolyline
\* DeletePolyline returning a promise that is not chained on the handle promise.
DeletePolyline_NotChained(p) ==
    /\ Len(ops) < MaxOps
    /\ ops' = Append(ops, Op("Delete", p, NoOptions, "",  "promise",
                             IF Get(p) = Undefined THEN "fulfilled" ELSE "pending"))
    /\ UNCHANGED <<comp, owner, polylines, handles, microtasks, nativeCalls,
                   listeners, events, notifications, zoneRuns, result>>

DeletePolyline(p) ==
    /\ Len(ops) < MaxOps
    /\ LET m == Get(p)
       IN  IF m = Undefined
           THEN \* return Promise.resolve();
                /\ ops' = Append(ops, Op("Delete", p, NoOptions, "", "promise", "fulfilled"))
                /\ UNCHANGED <<handles, microtasks>>
           ELSE \* return m.then(...)
                /\ ops' = Append(ops, Op("Delete", p, NoOptions, "", "promise", "pending"))
                /\ Then(m)
    /\ UNCHANGED <<comp, owner, polylines, nativeCalls, listeners, events,
                   notifications, zoneRuns, result>>

\* A delete callback that clears the lookup instead of deleting one key.
DeleteCallback_ClearsAll(o) ==
    /\ zoneRuns' = zoneRuns + 1
    /\ nativeCalls' = Append(nativeCalls, NativeCall("Delete", o, NoOptions, "", "", TRUE))
    /\ polylines' = << >>
    /\ UNCHANGED <<comp, owner, listeners, events, notifications, result>>

\* (l) => this._zone.run(() => { l.Delete(); this._polylines.delete(polyline); })
DeleteCallback(o) ==
    /\ zoneRuns' = zoneRuns + 1
    /\ nativeCalls' = Append(nativeCalls, NativeCall("Delete", o, NoOptions, "", "", TRUE))
    /\ polylines' = MapDelete(polylines, ops[o].polyline)
    /\ UNCHANGED <<comp, owner, listeners, events, notifications, result>>

\* -------------------------------------------------------- UpdatePolyline
\* UpdatePolyline without its null check: .then of undefined throws.
UpdatePolyline_NoNullCheck(p) ==
    /\ Len(ops) < MaxOps
    /\ LET m == Get(p)
       IN  IF m = Undefined
           THEN /\ ops' = Append(ops, Op("Update", p, NoOptions, "", "TypeError", "none"))
                /\ UNCHANGED <<handles, microtasks>>
           ELSE /\ ops' = Append(ops, Op("Update", p, NoOptions, "", "promise", "pending"))
                /\ Then(m)
    /\ UNCHANGED <<comp, owner, polylines, nativeCalls, listeners, events,
                   notifications, zoneRuns, result>>

UpdatePolyline(p) ==
    /\ Len(ops) < MaxOps
    /\ LET m == Get(p)
       IN  IF m = Undefined
           THEN /\ ops' = Append(ops, Op("Update", p, NoOptions, "", "promise", "fulfilled"))
                /\ UNCHANGED <<handles, microtasks>>
           ELSE /\ ops' = Append(ops, Op("Update", p, NoOptions, "", "promise", "pending"))
                /\ Then(m)
    /\ UNCHANGED <<comp, owner, polylines, nativeCalls, listeners, events,
                   notifications, zoneRuns, result>>

\* A callback that passes the path read when UpdatePolyline was called.
UpdateCallback_PathAtCall(o) ==
    /\ zoneRuns' = zoneRuns + 1
    /\ nativeCalls' = Append(nativeCalls,
            NativeCall("SetPath", o, NoOptions, ops[o].pathAtCall, "", TRUE))
    /\ UNCHANGED <<comp, owner, polylines, listeners, events, notifications,
                   result>>

\* (l) => this._zone.run(() => { l.SetPath(polyline.Path); })
UpdateCallback(o) ==
    /\ zoneRuns' = zoneRuns + 1
    /\ nativeCalls' = Append(nativeCalls,
            NativeCall("SetPath", o, NoOptions, comp[ops[o].polyline].Path, "", TRUE))
    /\ UNCHANGED <<comp, owner, polylines, listeners, events, notifications,
                   result>>

\* ------------------------------------------------------------ SetOptions
\* this._polylines.get(polyline).then(...): .then of undefined throws.
SetOptions(p, options) ==
    /\ Len(ops) < MaxOps
    /\ LET m == Get(p)
       IN  IF m = Undefined
           THEN /\ ops' = Append(ops, Op("SetOptions", p, options, "", "TypeError", "none"))
                /\ UNCHANGED <<handles, microtasks>>
           ELSE /\ ops' = Append(ops, Op("SetOptions", p, options, "", "promise", "pending"))
                /\ Then(m)
    /\ UNCHANGED <<comp, owner, polylines, nativeCalls, listeners, events,
                   notifications, zoneRuns, result>>

\* A callback that passes the component's own options instead of the argument.
SetOptionsCallback_ComponentOptions(o) ==
    /\ nativeCalls' = Append(nativeCalls,
            NativeCall("SetOptions", o, PolylineOptions(comp[ops[o].polyline]), "", "", FALSE))
    /\ UNCHANGED <<comp, owner, polylines, listeners, events, notifications,
                   zoneRuns, result>>

\* (l) => { l.SetOptions(options); }
SetOptionsCallback(o) ==
    /\ nativeCalls' = Append(nativeCalls,
            NativeCall("SetOptions", o, ops[o].options, "", "", FALSE))
    /\ UNCHANGED <<comp, owner, polylines, listeners, events, notifications,
                   zoneRuns, result>>

\* ------------------------------------------------- CreateEventObservable
\* Observable.create(subscribe): the observable holds eventName and polyline;
\* nothing runs until a subscription.
CreateEventObservable(eventName, p) == [eventName |-> eventName, polyline |-> p]

\* observable.subscribe(observer) runs the function given to
\* Observable.create: this._polylines.get(polyline).then(...)
Subscribe(obs) ==
    /\ Len(ops) < MaxOps
    /\ LET m == Get(obs.polyline)
       IN  IF m = Undefined
           THEN /\ ops' = Append(ops, Op("Subscribe", obs.polyline, NoOptions,
                                         obs.eventName, "TypeError", "none"))
                /\ UNCHANGED <<handles, microtasks>>
           ELSE /\ ops' = Append(ops, Op("Subscribe", obs.polyline, NoOptions,
                                         obs.eventName, "subscription", "pending"))
                /\ Then(m)
    /\ UNCHANGED <<comp, owner, polylines, nativeCalls, listeners, events,
                   notifications, zoneRuns, result>>

\* (p) => { p.AddListener(eventName, <delegate>); }
SubscribeCallback(o) ==
    /\ nativeCalls' = Append(nativeCalls,
            NativeCall("AddListener", o, NoOptions, "", ops[o].eventName, FALSE))
    /\ listeners' = Append(listeners,
            [h |-> ops[o].h, eventName |-> ops[o].eventName, sub |-> o,
             attachedAt |-> Len(events)])
    /\ UNCHANGED <<comp, owner, polylines, events, notifications, zoneRuns,
                   result>>

\* A delegate that calls observer.next(e) directly.
Delegate_OutsideZone(l, k, e) == [sub |-> l.sub, ev |-> k, value |-> e, zone |-> FALSE]

\* (e) => this._zone.run(() => observer.next(e)), called for event number k
Delegate(l, k, e) == [sub |-> l.sub, ev |-> k, value |-> e, zone |-> TRUE]

\* The map SDK fires eventName on the native polyline of handle h and calls
\* the delegates attached for it, in the order they were attached.
FireEvent(h, eventName, e) ==
    /\ Len(events) < MaxEvents
    /\ h \in 1..Len(handles)
    /\ handles[h].state = "fulfilled"
    /\ LET k == Len(events) + 1
           called == SelectSeq(listeners, LAMBDA l : l.h = h /\ l.eventName = eventName)
       IN  /\ events' = Append(events, [h |-> h, eventName |-> eventName, value |-> e])
           /\ notifications' = notifications \o
                  [i \in 1..Len(called) |-> Delegate(called[i], k, e)]
           /\ zoneRuns' = zoneRuns + Len(called)
    /\ UNCHANGED <<comp, owner, polylines, handles, ops, microtasks, nativeCalls,
                   listeners, result>>

\* ------------------------------------------------------- the job queue
\* The first job of the queue runs: the callback of its op, or, when the
\* handle promise rejected, the rejection of the promise .then returned.
RunCallback(o) ==
    /\ CASE ops[o].kind = "Delete" -> DeleteCallback(o)
         [] ops[o].kind = "Update" -> UpdateCallback(o)
         [] ops[o].kind = "SetOptions" -> SetOptionsCallback(o)
         [] ops[o].kind = "Subscribe" -> SubscribeCallback(o)
    /\ ops' = [ops EXCEPT ![o].status = "fulfilled"]

RunRejected(o) ==
    /\ ops' = [ops EXCEPT ![o].status = "rejected"]
    /\ UNCHANGED <<comp, owner, polylines, nativeCalls, listeners, events,
                   notifications, zoneRuns, result>>

RunMicrotask ==
    /\ microtasks # << >>
    /\ microtasks' = Tail(microtasks)
    /\ UNCHANGED handles
    /\ IF handles[ops[Head(microtasks)].h].state = "fulfilled"
       THEN RunCallback(Head(microtasks))
       ELSE RunRejected(Head(microtasks))

\* --------------------------------------------------------------- queries
\* return this._polylines.get(polyline);
GetNativeMarker(p) == Get(p)

CallGetNativeMarker(p) ==
    /\ result' = [call |-> "GetNativeMarker", polyline |-> p, e |-> NoEvent,
                  kind |-> IF GetNativeMarker(p) = Undefined THEN "undefined" ELSE "promise",
                  ref |-> GetNativeMarker(p), latitude |-> 0, longitude |-> 0]
    /\ UNCHANGED <<comp, owner, polylines, handles, ops, microtasks, nativeCalls,
                   listeners, events, notifications, zoneRuns>>

\* !x for the values a click event and its members take
Falsy(x) == x.kind \in FalsyKinds

\* A check of the coordinates lat() and lng() instead of the members lat and lng.
GetCoordinatesFromClick_ChecksValues(e) ==
    IF Falsy(e) THEN Null
    ELSE IF Falsy(e.latLng) THEN Null
    ELSE IF Falsy(e.latLng.lat) \/ Falsy(e.latLng.lng) THEN Null
    ELSE IF e.latLng.lat.returns = 0 \/ e.latLng.lng.returns = 0 THEN Null
    ELSE [kind |-> "ILatLong", latitude |-> e.latLng.lat.returns,
          longitude |-> e.latLng.lng.returns]

GetCoordinatesFromClick(e) ==
    IF Falsy(e) THEN Null
    ELSE IF Falsy(e.latLng) THEN Null
    ELSE IF Falsy(e.latLng.lat) \/ Falsy(e.latLng.lng) THEN Null
    ELSE [kind |-> "ILatLong", latitude |-> e.latLng.lat.returns,
          longitude |-> e.latLng.lng.returns]

CallGetCoordinatesFromClick(e) ==
    /\ LET r == GetCoordinatesFromClick(e)
       IN  result' = [call |-> "GetCoordinatesFromClick", polyline |-> "", e |-> e,
                      kind |-> r.kind, ref |-> 0,
                      latitude |-> r.latitude, longitude |-> r.longitude]
    /\ UNCHANGED <<comp, owner, polylines, handles, ops, microtasks, nativeCalls,
                   listeners, events, notifications, zoneRuns>>

\* ------------------------------------------------------- specifications
AddStep == \E p \in Comps : AddPolyline(p)
InputsStep == \E p \in Comps, c \in ComponentValues : ChangeInputs(p, c)
PathStep == \E p \in Comps, path \in Paths : ChangePath(p, path)
DeleteStep == \E p \in Comps : DeletePolyline(p)
UpdateStep == \E p \in Comps : UpdatePolyline(p)
SetOptionsStep == \E p \in Comps, options \in OptionsArgs : SetOptions(p, options)
SubscribeStep ==
    \E p \in Comps, eventName \in EventNames :
        Subscribe(CreateEventObservable(eventName, p))
ResolveStep == \E h \in 1..MaxHandles : ResolveHandle(h)
RejectStep == \E h \in 1..MaxHandles : RejectHandle(h)
EventStep ==
    \E h \in 1..MaxHandles, eventName \in EventNames, e \in EventValues :
        FireEvent(h, eventName, e)
MarkerStep == \E p \in Comps : CallGetNativeMarker(p)
ClickStep == \E e \in ClickEvents : CallGetCoordinatesFromClick(e)

\* The whole service and its environment.
Next ==
    \/ AddStep \/ InputsStep \/ PathStep
    \/ DeleteStep \/ UpdateStep \/ SetOptionsStep \/ SubscribeStep
    \/ ResolveStep \/ RejectStep \/ RunMicrotask \/ EventStep
    \/ MarkerStep \/ ClickStep

Spec == Init /\ [][Next]_vars

\* Registration: AddPolyline while the component's inputs change.
NextAdd == AddStep \/ InputsStep \/ PathStep \/ ResolveStep \/ RejectStep

SpecAdd == Init /\ [][NextAdd]_vars

\* The asynchronous methods, the settling of the handle promises and the
\* job queue: every interleaving of the calls and the callbacks.
NextAsync ==
    \/ AddStep \/ DeleteStep \/ UpdateStep \/ SetOptionsStep \/ SubscribeStep
    \/ ResolveStep \/ RejectStep \/ RunMicrotask

SpecAsync == Init /\ [][NextAsync]_vars

\* The job queue always runs its jobs (the event loop drains the microtasks).
FairAsync == SpecAsync /\ WF_vars(RunMicrotask)

\* UpdatePolyline while the component's path changes.
NextUpdate ==
    \/ AddStep \/ PathStep \/ UpdateStep \/ DeleteStep
    \/ ResolveStep \/ RejectStep \/ RunMicrotask

SpecUpdate == Init /\ [][NextUpdate]_vars

\* Subscriptions and native events.
NextEvents ==
    \/ AddStep \/ SubscribeStep \/ DeleteStep
    \/ ResolveStep \/ RejectStep \/ RunMicrotask \/ EventStep

SpecEvents == Init /\ [][NextEvents]_vars

\* The synchronous queries.
NextQuery == AddStep \/ ResolveStep \/ MarkerStep \/ ClickStep

SpecQuery == Init /\ [][NextQuery]_vars

\* Every operation that reads or writes the lookup: the asynchronous
\* methods, their callbacks and the synchronous queries. The click query
\* reads only its argument, so it is called here with the undefined event
\* and with the events that carry coordinates.
LookupClickStep ==
    \E e \in {x \in ClickEvents : x = NoEvent \/ GetCoordinatesFromClick(x) # Null} :
        CallGetCoordinatesFromClick(e)

NextLookup == NextAsync \/ MarkerStep \/ LookupClickStep

SpecLookup == Init /\ [][NextLookup]_vars

\* ================================================================ claims
Ops == 1..Len(ops)
Handles == 1..Len(handles)
Registered(o) == o \in Ops /\ ops[o].h # Undefined
\* the native calls the callback of op o has made
NativeCallsOf(o) == {i \in 1..Len(nativeCalls) : nativeCalls[i].op = o}
\* Delete has been invoked on the native handle of promise h
Deleted(h) == \E i \in 1..Len(nativeCalls) :
                  nativeCalls[i].method = "Delete" /\ nativeCalls[i].h = h

\* C1: AddPolyline(p) calls CreatePolyline exactly once, with the eleven
\* options equal to p's properties at call time, and registers the returned
\* promise, still pending or not, so that GetNativeMarker(p) returns it.
C1_AddRegistersPendingHandle ==
    [][\A p \in Comps : AddPolyline(p) =>
          /\ Len(handles') = Len(handles) + 1
          /\ \A h \in Handles : handles'[h] = handles[h]
          /\ LET o == handles'[Len(handles')].options
             IN  /\ o.id = comp[p].Id
                 /\ o.clickable = comp[p].Clickable
                 /\ o.draggable = comp[p].Draggable
                 /\ o.editable = comp[p].Editable
                 /\ o.geodesic = comp[p].Geodesic
                 /\ o.path = comp[p].Path
                 /\ o.strokeColor = comp[p].StrokeColor
                 /\ o.strokeOpacity = comp[p].StrokeOpacity
                 /\ o.strokeWeight = comp[p].StrokeWeight
                 /\ o.visible = comp[p].Visible
                 /\ o.zIndex = comp[p].zIndex
          /\ GetNativeMarker(p)' = Len(handles')
          /\ handles'[GetNativeMarker(p)'].state = "pending"
          /\ ops' = ops /\ microtasks' = microtasks /\ nativeCalls' = nativeCalls
      ]_vars

\* a component registered after its inputs changed, its promise still pending
C1_Witness ==
    \E p \in Comps :
        /\ GetNativeMarker(p) # Undefined
        /\ handles[GetNativeMarker(p)].state = "pending"
        /\ handles[GetNativeMarker(p)].options.id # DefaultComponent.Id
        /\ handles[GetNativeMarker(p)].options.path = "pathA"

\* C2: the promise DeletePolyline(p) returned for a registered p is fulfilled
\* only once Delete has been invoked on the handle registered for p at the
\* call; the step that invokes Delete leaves p without an entry; and while
\* that handle promise is unresolved the entry for p stays present.
C2_FulfilledImpliesDeleted ==
    \A o \in Ops : (ops[o].kind = "Delete" /\ Registered(o)) =>
        (ops[o].status = "fulfilled" => Deleted(ops[o].h))

C2_EntryRemovedAtDelete ==
    \A o \in Ops : (ops[o].kind = "Delete" /\ NativeCallsOf(o)' # NativeCallsOf(o)) =>
        ops[o].polyline \notin DOMAIN polylines'

C2_EntryPresentUntilResolved ==
    \A o \in Ops : (ops[o].kind = "Delete" /\ Registered(o)) =>
        (handles[ops[o].h].state = "pending" => ops[o].polyline \in DOMAIN polylines)

C2_DeleteFulfilledOnceDeleted ==
    /\ [](C2_FulfilledImpliesDeleted /\ C2_EntryPresentUntilResolved)
    /\ [][C2_EntryRemovedAtDelete]_vars

\* C3: once the handle promise registered for p is resolved, the promise
\* DeletePolyline(p) returned is eventually fulfilled; and when it is
\* fulfilled and AddPolyline(p) was not called after that DeletePolyline(p),
\* p has no entry in the lookup, from then on.
C3_AddedAgain(o) == \E h \in Handles : h > ops[o].addsAtCall /\ owner[h] = ops[o].polyline

C3_IsDelete(o) ==
    IF o \in Ops THEN ops[o].kind = "Delete" /\ ops[o].h # Undefined ELSE FALSE

C3_HandleResolved(o) ==
    IF C3_IsDelete(o) THEN handles[ops[o].h].state = "fulfilled" ELSE FALSE

C3_Fulfilled(o) ==
    IF C3_IsDelete(o) THEN ops[o].status = "fulfilled" ELSE FALSE

C3_AbsentUnlessAddedAgain(o) ==
    IF C3_Fulfilled(o)
    THEN C3_AddedAgain(o) \/ ops[o].polyline \notin DOMAIN polylines
    ELSE TRUE

C3_DeleteCompletes ==
    \A o \in 1..MaxOps :
        /\ C3_HandleResolved(o) ~> C3_Fulfilled(o)
        /\ []C3_AbsentUnlessAddedAgain(o)

\* a delete that completed after a second registration of another component
C3_Witness ==
    \E o \in Ops :
        /\ ops[o].kind = "Delete" /\ Registered(o) /\ ops[o].status = "fulfilled"
        /\ ~C3_AddedAgain(o)
        /\ Len(handles) > ops[o].addsAtCall
        /\ ops[o].polyline \notin DOMAIN polylines

\* C4: every call of observer.next is made inside _zone.run, and for every
\* listener a subscription attached and every later occurrence of its event
\* on its handle, observer.next is called exactly once, with the event's
\* value.
C4_NotificationsOf(l, k) ==
    {i \in 1..Len(notifications) :
        notifications[i].sub = listeners[l].sub /\ notifications[i].ev = k}

C4_NotifiedOnceInsideZone ==
    /\ \A i \in 1..Len(notifications) : notifications[i].zone
    /\ \A l \in 1..Len(listeners), k \in 1..Len(events) :
          (/\ events[k].h = listeners[l].h
           /\ events[k].eventName = listeners[l].eventName
           /\ k > listeners[l].attachedAt)
          => /\ Cardinality(C4_NotificationsOf(l, k)) = 1
             /\ \A i \in C4_NotificationsOf(l, k) :
                   notifications[i].value = events[k].value

\* two subscriptions to the same event of one handle, both notified of it
C4_Witness ==
    /\ Len(notifications) = 2
    /\ notifications[1].sub # notifications[2].sub
    /\ notifications[1].ev = notifications[2].ev
    /\ notifications[1].zone /\ notifications[2].zone

\* C5: DeletePolyline(p) and UpdatePolyline(p) for a p without an entry in
\* the lookup return an already-resolved promise, call nothing on a native
\* handle (then or later), do not enter the zone and leave the lookup as it
\* is.
C5_NoCallbackWithoutEntry ==
    \A o \in Ops : (ops[o].kind \in {"Delete", "Update"} /\ ops[o].h = Undefined) =>
        /\ ops[o].ret = "promise"
        /\ ops[o].status = "fulfilled"
        /\ NativeCallsOf(o) = {}

C5_CallWithoutEntry ==
    \A p \in Comps : ((DeletePolyline(p) \/ UpdatePolyline(p)) /\ p \notin DOMAIN polylines) =>
        /\ ops'[Len(ops')].ret = "promise"
        /\ ops'[Len(ops')].status = "fulfilled"
        /\ nativeCalls' = nativeCalls
        /\ zoneRuns' = zoneRuns
        /\ polylines' = polylines
        /\ microtasks' = microtasks
        /\ handles' = handles

C5_UnregisteredIsNoOp == []C5_NoCallbackWithoutEntry /\ [][C5_CallWithoutEntry]_vars

\* an update of a component whose entry a completed delete has removed
C5_Witness ==
    /\ Len(ops) = 2
    /\ ops[1].kind = "Delete" /\ ops[1].h # Undefined /\ ops[1].status = "fulfilled"
    /\ ops[2].kind = "Update" /\ ops[2].h = Undefined /\ ops[2].status = "fulfilled"
    /\ ops[2].polyline = ops[1].polyline
    /\ Len(nativeCalls) = 1

\* C6: SetOptions(p, options) returns a promise for every component p, also
\* one never added or already removed; it never throws.
C6_SetOptionsReturnsPromise ==
    \A o \in Ops : ops[o].kind = "SetOptions" => ops[o].ret = "promise"

\* C7: for a registered p the promise SetOptions(p, options) returned is
\* fulfilled only after SetOptions was invoked, exactly once, on the native
\* handle registered for p, with the options passed in; neither the call nor
\* its callback changes the lookup.
C7_ForwardedOnce ==
    \A o \in Ops : (ops[o].kind = "SetOptions" /\ Registered(o)) =>
        /\ Cardinality(NativeCallsOf(o)) <= 1
        /\ ops[o].status = "fulfilled" => Cardinality(NativeCallsOf(o)) = 1
        /\ \A i \in NativeCallsOf(o) :
              /\ nativeCalls[i].method = "SetOptions"
              /\ nativeCalls[i].h = ops[o].h
              /\ nativeCalls[i].options = ops[o].options

C7_CallStep ==
    \A p \in Comps, options \in OptionsArgs : SetOptions(p, options) =>
        /\ polylines' = polylines
        /\ ops'[Len(ops')].h = GetNativeMarker(p)
        /\ ops'[Len(ops')].options = options
        /\ nativeCalls' = nativeCalls

C7_CallbackStep ==
    \A o \in Ops : (ops[o].kind = "SetOptions" /\ ops'[o].status # ops[o].status) =>
        polylines' = polylines

C7_SetOptionsForwards == []C7_ForwardedOnce /\ [][C7_CallStep /\ C7_CallbackStep]_vars

\* two SetOptions calls with different options, both forwarded to the handle
C7_Witness ==
    /\ Len(ops) = 2 /\ Len(nativeCalls) = 2
    /\ \A o \in Ops : ops[o].kind = "SetOptions" /\ ops[o].status = "fulfilled"
    /\ ops[1].h = ops[2].h
    /\ ops[1].options # ops[2].options

\* C8: for a registered p, UpdatePolyline(p) invokes SetPath exactly once on
\* the native handle registered for p, inside the zone, with p.Path as it is
\* when the callback runs, and the returned promise is fulfilled only after
\* that call.
C8_SetPathOnce ==
    \A o \in Ops : (ops[o].kind = "Update" /\ Registered(o)) =>
        /\ Cardinality(NativeCallsOf(o)) <= 1
        /\ ops[o].status = "fulfilled" => Cardinality(NativeCallsOf(o)) = 1
        /\ \A i \in NativeCallsOf(o) :
              /\ nativeCalls[i].method = "SetPath"
              /\ nativeCalls[i].h = ops[o].h
              /\ nativeCalls[i].zone

C8_CallbackStep ==
    \A o \in Ops : (ops[o].kind = "Update" /\ NativeCallsOf(o)' # NativeCallsOf(o)) =>
        /\ nativeCalls'[Len(nativeCalls')].op = o
        /\ nativeCalls'[Len(nativeCalls')].path = comp[ops[o].polyline].Path
        /\ zoneRuns' = zoneRuns + 1
        /\ ops[o].status = "pending" /\ ops'[o].status = "fulfilled"

C8_CallStep ==
    \A p \in Comps : (UpdatePolyline(p) /\ p \in DOMAIN polylines) =>
        /\ ops'[Len(ops')].h = polylines[p]
        /\ ops'[Len(ops')].status = "pending"
        /\ nativeCalls' = nativeCalls

C8_UpdateSetsCurrentPath == []C8_SetPathOnce /\ [][C8_CallStep /\ C8_CallbackStep]_vars

\* an update whose SetPath got a path other than the one at the call
C8_Witness ==
    \E o \in Ops :
        /\ ops[o].kind = "Update" /\ ops[o].status = "fulfilled"
        /\ \E i \in NativeCallsOf(o) : nativeCalls[i].path # ops[o].pathAtCall

\* C9: GetCoordinatesFromClick(e) returns null exactly when e, e.latLng,
\* e.latLng.lat or e.latLng.lng is falsy, and otherwise the record of
\* e.latLng.lat() and e.latLng.lng(); it changes no state of the service.
C9_NullResult ==
    result.call = "GetCoordinatesFromClick" =>
        LET e == result.e
            null == \/ e.kind # "object"
                    \/ e.latLng.kind # "object"
                    \/ e.latLng.lat.kind # "function"
                    \/ e.latLng.lng.kind # "function"
        IN  /\ (result.kind = "null") <=> null
            /\ ~null => /\ result.kind = "ILatLong"
                        /\ result.latitude = e.latLng.lat.returns
                        /\ result.longitude = e.latLng.lng.returns

C9_NoStateChange ==
    \A e \in ClickEvents : CallGetCoordinatesFromClick(e) =>
        UNCHANGED <<comp, polylines, handles, owner, ops, microtasks, nativeCalls,
                    listeners, events, notifications, zoneRuns>>

C9_CoordinatesFromClick == []C9_NullResult /\ [][C9_NoStateChange]_vars

\* the coordinates (0, 1) returned while a component is registered
C9_Witness ==
    /\ result.call = "GetCoordinatesFromClick"
    /\ result.kind = "ILatLong" /\ result.latitude = 0 /\ result.longitude = 1
    /\ polylines # << >>

\* C10: every handle promise AddPolyline registered is the value the lookup
\* holds for its component, or Delete has been invoked on its handle, or a
\* pending DeletePolyline will invoke it.
C10_NoHandleLeaked ==
    \A h \in Handles :
        \/ GetNativeMarker(owner[h]) = h
        \/ Deleted(h)
        \/ \E o \in Ops : ops[o].kind = "Delete" /\ ops[o].h = h
                            /\ ops[o].status = "pending"

\* C11: the completion of a DeletePolyline(p) removes only the registration
\* it looked up: a step in which a delete callback invokes Delete leaves
\* every entry that holds another handle promise as it is.  So after
\* AddPolyline(p), DeletePolyline(p), AddPolyline(p) and the resolution of
\* the first handle, GetNativeMarker(p) is the second promise.
C11_DeleteKeepsLaterRegistration ==
    [][\A o \in Ops : (ops[o].kind = "Delete" /\ NativeCallsOf(o)' # NativeCallsOf(o)) =>
          \A p \in DOMAIN polylines :
              polylines[p] # ops[o].h =>
                  (p \in DOMAIN polylines' /\ polylines'[p] = polylines[p])
      ]_vars

\* C12: Delete is invoked at most once on any native handle.
C12_DeleteAtMostOnce ==
    \A h \in Handles :
        Cardinality({i \in 1..Len(nativeCalls) :
                        nativeCalls[i].method = "Delete" /\ nativeCalls[i].h = h}) <= 1

\* C13: once Delete has been invoked on a native handle, SetPath, SetOptions
\* and AddListener are never invoked on that handle afterwards.
C13_NoUseAfterDelete ==
    \A i \in 1..Len(nativeCalls), j \in 1..Len(nativeCalls) :
        (i < j /\ nativeCalls[i].method = "Delete" /\ nativeCalls[j].h = nativeCalls[i].h)
        => nativeCalls[j].method \notin {"SetPath", "SetOptions", "AddListener"}

\* C14: of two calls of SetOptions, UpdatePolyline, DeletePolyline or
\* subscribe that chain on the same handle promise (both waiting on it, or
\* the later one made after it resolved), the native call of the earlier
\* one is made before the native call of the later one.
C14_CallOf(o) == CHOOSE i \in NativeCallsOf(o) : TRUE

C14_NativeCallsInCallOrder ==
    \A o1 \in Ops, o2 \in Ops :
        (o1 < o2 /\ Registered(o1) /\ ops[o1].h = ops[o2].h /\ NativeCallsOf(o2) # {})
        => /\ NativeCallsOf(o1) # {}
           /\ C14_CallOf(o1) < C14_CallOf(o2)

\* a SetOptions and a later DeletePolyline chained on the same handle
\* promise, their native calls made in that order
C14_Witness ==
    /\ Len(ops) = 2 /\ Len(nativeCalls) = 2
    /\ ops[1].kind = "SetOptions" /\ ops[2].kind = "Delete"
    /\ ops[1].h = ops[2].h
    /\ ops[2].addsAtCall = ops[1].addsAtCall
    /\ nativeCalls[1].method = "SetOptions" /\ nativeCalls[2].method = "Delete"

\* C15: a subscription to CreateEventObservable(eventName, p) causes exactly
\* one AddListener(eventName, ...) on the handle registered for p, made only
\* after the handle promise resolved and not by the subscribe call itself;
\* k subscriptions cause k listeners; and a subscription for a p without an
\* entry in the lookup completes without error.
C15_OneListenerPerSubscription ==
    \A o \in Ops : (ops[o].kind = "Subscribe" /\ Registered(o)) =>
        /\ Cardinality(NativeCallsOf(o)) <= 1
        /\ ops[o].status = "fulfilled" => Cardinality(NativeCallsOf(o)) = 1
        /\ NativeCallsOf(o) # {} => handles[ops[o].h].state = "fulfilled"
        /\ \A i \in NativeCallsOf(o) :
              /\ nativeCalls[i].method = "AddListener"
              /\ nativeCalls[i].h = ops[o].h
              /\ nativeCalls[i].eventName = ops[o].eventName

C15_ListenersCounted ==
    Len(listeners) =
        Cardinality({o \in Ops : ops[o].kind = "Subscribe" /\ ops[o].status = "fulfilled"})

C15_SubscribeNeverThrows ==
    \A o \in Ops : ops[o].kind = "Subscribe" => ops[o].ret = "subscription"

C15_SubscribeCallStep ==
    Len(ops') > Len(ops) => (nativeCalls' = nativeCalls /\ listeners' = listeners)

C15_LazyListenerPerSubscription ==
    /\ [](C15_OneListenerPerSubscription /\ C15_ListenersCounted /\ C15_SubscribeNeverThrows)
    /\ [][C15_SubscribeCallStep]_vars

\* C16: when the CreatePolyline promise registered for p rejects, the
\* promises DeletePolyline(p), UpdatePolyline(p) and SetOptions(p, options)
\* returned reject, their callbacks never run (no native call, no entry into
\* the zone), and the entry for p is never removed from the lookup.
C16_OnRejected(o) ==
    IF o \in Ops
    THEN /\ ops[o].kind \in {"Delete", "Update", "SetOptions"}
         /\ ops[o].h # Undefined
         /\ handles[ops[o].h].state = "rejected"
    ELSE FALSE

C16_Rejected(o) == IF o \in Ops THEN ops[o].status = "rejected" ELSE FALSE

C16_CallbackNeverRuns ==
    \A o \in Ops : C16_OnRejected(o) =>
        (ops[o].status # "fulfilled" /\ NativeCallsOf(o) = {})

C16_RejectionStep ==
    \A o \in Ops : (C16_OnRejected(o) /\ ops'[o].status # ops[o].status) =>
        /\ ops'[o].status = "rejected"
        /\ zoneRuns' = zoneRuns
        /\ nativeCalls' = nativeCalls
        /\ polylines' = polylines

C16_EntryStays ==
    \A o \in Ops : (C16_OnRejected(o) /\ ops[o].kind = "Delete"
                      /\ ops[o].polyline \in DOMAIN polylines) =>
        ops[o].polyline \in DOMAIN polylines'

C16_RejectionIsNotHandled ==
    /\ \A o \in 1..MaxOps : C16_OnRejected(o) ~> C16_Rejected(o)
    /\ []C16_CallbackNeverRuns
    /\ [][C16_RejectionStep /\ C16_EntryStays]_vars

C16_AllButEntryStays ==
    /\ \A o \in 1..MaxOps : C16_OnRejected(o) ~> C16_Rejected(o)
    /\ []C16_CallbackNeverRuns
    /\ [][C16_RejectionStep]_vars

\* C17: the lookup changes only when AddPolyline(p) sets the entry for p to
\* the new handle promise, leaving every other entry as it is, or when the
\* completion callback of DeletePolyline(p) removes the entry for p, leaving
\* every other entry as it is. No other operation (GetNativeMarker,
\* SetOptions, UpdatePolyline, the subscriptions of CreateEventObservable,
\* GetCoordinatesFromClick, their calls and their callbacks) changes it, and
\* each component has at most one entry, the handle promise made for it.
C17_AddSets ==
    /\ Len(handles') = Len(handles) + 1
    /\ polylines' = MapSet(polylines, owner'[Len(handles')], Len(handles'))

C17_DeleteCallbackRemoves ==
    \E o \in Ops :
        /\ ops[o].kind = "Delete"
        /\ ops[o].status = "pending" /\ ops'[o].status = "fulfilled"
        /\ polylines' = MapDelete(polylines, ops[o].polyline)

C17_LookupStep ==
    /\ polylines' # polylines => (C17_AddSets \/ C17_DeleteCallbackRemoves)
    /\ Len(handles') > Len(handles) => C17_AddSets
    /\ (Len(ops') > Len(ops) \/ result' # result) => polylines' = polylines
    /\ \A o \in Ops : ops'[o].status # ops[o].status =>
          IF ops[o].kind = "Delete" /\ ops'[o].status = "fulfilled"
          THEN polylines' = MapDelete(polylines, ops[o].polyline)
          ELSE polylines' = polylines

C17_OneEntryPerComponent ==
    /\ DOMAIN polylines \subseteq Comps
    /\ \A p \in DOMAIN polylines : polylines[p] \in Handles /\ owner[polylines[p]] = p

C17_LookupChangesInTwoWays ==
    /\ []C17_OneEntryPerComponent
    /\ [][C17_LookupStep]_vars

\* the delete callback of one component has removed its entry while the
\* other component's entry is still there, and a query has read the lookup
C17_Witness ==
    /\ \E o \in Ops :
          /\ ops[o].kind = "Delete" /\ ops[o].status = "fulfilled"
          /\ NativeCallsOf(o) # {}
          /\ ops[o].polyline \notin DOMAIN polylines
    /\ DOMAIN polylines # {}
    /\ result.call = "GetNativeMarker"
====
